---- MODULE Spec2Model ----
(***************************************************************************)
(* Model of the calldata encoder/visualizer engine (lib/calldata-encoder): *)
(* encodeFunctionCall = parse signature -> canonical signature + selector  *)
(* -> ABI-encode the values -> buildFlatBreakdown of the encoded bytes.    *)
(*                                                                         *)
(* Text is modelled as a sequence of tokens: a token is an identifier or   *)
(* type keyword, or one of "(", ")", ",", "[]", or " " (ONE whitespace     *)
(* character).  Hex strings are sequences of hex digits 0..15, so that     *)
(* substring(), padStart(), padEnd() and parseInt(.,16) act on them as in  *)
(* the source (two digits per byte, 64 digits per 32-byte word).           *)
(*                                                                         *)
(* The page (app/page.tsx) is modelled next to it: its React state, the    *)
(* debounced effect that derives the argument fields from the signature,   *)
(* the edits of the user, and handleEncode, which calls encodeFunctionCall *)
(* synchronously.  The theme toggle (components/ThemeToggle.tsx) is        *)
(* modelled by its two effects, toggleTheme, and a reload of the page.     *)
(***************************************************************************)
EXTENDS Integers, Sequences, FiniteSets, TLC

VARIABLES
  input,        \* argument `input` of encodeFunctionCall (token sequence)
  argValues,    \* argument `argValues` of encodeFunctionCall (value trees)
  pc,           \* position inside encodeFunctionCall
  funcName,     \* const funcName
  abiParams,    \* const abiParams
  canonicalSignature,
  selector,     \* 8 hex digits
  encodedParamsHex,
  calldata,     \* EncodeResult.calldata (without the 0x prefix)
  parts,        \* EncodeResult.parts
  results,      \* the EncodeResults the caller holds from its earlier calls
  pageInput,      \* Home: state `input` (token sequence)
  debouncedInput, \* Home: useDebounce(input, 500)
  pageAbiParams,  \* Home: state `abiParams`
  pageArgValues,  \* Home: state `argValues` (texts of the argument fields)
  encoded,        \* Home: state `encoded`
  pageParts,      \* Home: state `parts`
  edits,          \* number of edits the user has made
  mounted,        \* ThemeToggle: state `mounted`
  isDarkMode,     \* ThemeToggle: state `isDarkMode`
  savedTheme,     \* ThemeToggle: what the mount effect read from storage
  storedTheme,    \* localStorage item 'theme' ("none" when absent)
  darkClass,      \* whether document.documentElement has the class 'dark'
  prefersDark,    \* matchMedia('(prefers-color-scheme: dark)').matches
  themePc,        \* ThemeToggle: which effects are still to run
  toggled,        \* whether toggleTheme has run since the mount
  themeSteps      \* number of toggles and reloads so far

callVars == <<input, argValues, pc, funcName, abiParams, canonicalSignature,
              selector, encodedParamsHex, calldata, parts, results>>

pageVars == <<pageInput, debouncedInput, pageAbiParams, pageArgValues,
              encoded, pageParts, edits>>

themeVars == <<mounted, isDarkMode, savedTheme, storedTheme, darkClass,
               prefersDark, themePc, toggled, themeSteps>>

vars == <<callVars, pageVars, themeVars>>

-----------------------------------------------------------------------------
(* Bounds of the model *)

MaxParams == 3

MaxArrayLen == 2
\* the longest run of the array loop of parseDynamicData that is followed to
\* its end; a longer one (a misread length can be astronomically large) is
\* taken never to return
MaxItems == 256
\* the number of edits of the user that are followed
MaxEdits == 3
\* the number of finished calls of one caller that are followed
MaxCalls == 3
\* the number of toggles and reloads of the page that are followed
MaxThemeSteps == 4

-----------------------------------------------------------------------------
(* JavaScript string primitives, on sequences *)

Min(a, b) == IF a < b THEN a ELSE b

Max(a, b) == IF a > b THEN a ELSE b

\* Number.NaN, as parseInt("") returns it
NaN == -1

\* s.substring(a, b), 0-based: NaN and negatives count as 0, both ends are
\* clamped to the length, and the ends are swapped when a > b
JsSubstring(s, a, b) ==
  LET ca == Min(Max(a, 0), Len(s))
      cb == Min(Max(b, 0), Len(s))
      lo == Min(ca, cb)
      hi == Max(ca, cb)
  IN  SubSeq(s, lo + 1, hi)

\* s.substring(a)
JsSubstringFrom(s, a) == JsSubstring(s, a, Len(s))

\* s.indexOf(c): 0-based, -1 when absent
IndexOf(s, c) ==
  IF \E i \in 1..Len(s) : s[i] = c
  THEN (CHOOSE i \in 1..Len(s) : s[i] = c /\ \A j \in 1..(i - 1) : s[j] # c) - 1
  ELSE -1

\* s.lastIndexOf(c)
LastIndexOf(s, c) ==
  IF \E i \in 1..Len(s) : s[i] = c
  THEN (CHOOSE i \in 1..Len(s) : s[i] = c /\ \A j \in (i + 1)..Len(s) : s[j] # c) - 1
  ELSE -1

RECURSIVE TrimStart(_)
TrimStart(s) == IF s # <<>> /\ Head(s) = " " THEN TrimStart(Tail(s)) ELSE s

RECURSIVE TrimEnd(_)
TrimEnd(s) ==
  IF s # <<>> /\ s[Len(s)] = " " THEN TrimEnd(SubSeq(s, 1, Len(s) - 1)) ELSE s

\* s.trim()
Trim(s) == TrimEnd(TrimStart(s))

\* n copies of x (none when n <= 0)
Repeat(x, n) == [i \in 1..n |-> x]

\* hex.padStart(n, '0')
PadStart(hex, n) == Repeat(0, n - Len(hex)) \o hex

\* hex.padEnd(n, '0')
PadEnd(hex, n) == hex \o Repeat(0, n - Len(hex))

\* parseInt(hex, 16): NaN on the empty string.  Values of 16^7 and more are
\* reported as Huge (any such value is past the end of every string here).
Huge == 268435456

Pow16(k) == CASE k = 0 -> 1 [] k = 1 -> 16 [] k = 2 -> 256 [] k = 3 -> 4096
              [] k = 4 -> 65536 [] k = 5 -> 1048576 [] k = 6 -> 16777216
              [] OTHER -> 268435456

\* the digit of weight 16^k of hex (0 when hex is shorter)
DigitAt(hex, k) == IF k < Len(hex) THEN hex[Len(hex) - k] ELSE 0

ParseInt16(hex) ==
  IF hex = <<>> THEN NaN
  ELSE IF \E i \in 1..(Len(hex) - 7) : hex[i] # 0 THEN Huge
  ELSE DigitAt(hex, 0) + 16 * DigitAt(hex, 1) + 256 * DigitAt(hex, 2)
         + 4096 * DigitAt(hex, 3) + 65536 * DigitAt(hex, 4)
         + 1048576 * DigitAt(hex, 5) + 16777216 * DigitAt(hex, 6)

-----------------------------------------------------------------------------
(* viem's parseAbiParameters, on tokens *)

IntTypes == {"uint8", "uint256", "int8"}

SolidityTypes == IntTypes \cup {"bool", "address", "bytes4", "string", "bytes"}

\* An AbiParameter: type is a token sequence (<<"uint256", "[]">> is
\* "uint256[]"), name = "" when the parameter has none, hasComponents is
\* `'components' in param`.
AbiParam(type, name, components, hasComponents) ==
  [type |-> type, name |-> name, components |-> components,
   hasComponents |-> hasComponents]

\* splitParameters: cut at the commas of depth 0, trim each piece; a piece
\* left empty at the end is dropped; unbalanced parentheses are an error.
\* The scan is written position by position: depth before position i is
\* the number of "(" minus the number of ")" among the characters before it.
DepthBefore(params, i) ==
  Cardinality({ j \in 1..(i - 1) : params[j] = "(" })
    - Cardinality({ j \in 1..(i - 1) : params[j] = ")" })

\* the positions of the commas met at depth 0
Cuts(params) ==
  { i \in 1..Len(params) : params[i] = "," /\ DepthBefore(params, i) = 0 }

\* the k-th cut from the left; 0 before the first, Len + 1 after the last
CutAt(params, k) ==
  IF k = 0 THEN 0
  ELSE IF k > Cardinality(Cuts(params)) THEN Len(params) + 1
  ELSE CHOOSE i \in Cuts(params) :
         Cardinality({ j \in Cuts(params) : j <= i }) = k

SplitParameters(params, result, current, depth) ==
  LET text    == TrimEnd(params)
      n       == Cardinality(Cuts(text))
      piece(k) == SubSeq(text, CutAt(text, k - 1) + 1, CutAt(text, k) - 1)
      closed  == [k \in 1..n |-> Trim(piece(k))]
      last    == piece(n + 1)
  IN  IF last = <<>> THEN [ok |-> TRUE, list |-> result \o closed]
      ELSE IF depth + DepthBefore(text, Len(text) + 1) # 0
      THEN [ok |-> FALSE, list |-> <<>>]
      ELSE [ok |-> TRUE, list |-> (result \o closed) \o <<Trim(last)>>]

IsIdentifier(tok) == tok \notin {"(", ")", ",", "[]", " ", ""}

\* the optional suffix of one parameter: (\[\])* then (\s name)?
RECURSIVE ArraySuffix(_)
ArraySuffix(s) == IF s # <<>> /\ Head(s) = "[]" THEN <<"[]">> \o ArraySuffix(Tail(s)) ELSE <<>>

ParseSuffix(s) ==
  LET arr  == ArraySuffix(s)
      rest == SubSeq(s, Len(arr) + 1, Len(s))
  IN  IF rest = <<>> THEN [ok |-> TRUE, array |-> arr, name |-> ""]
      ELSE IF Len(rest) = 2 /\ rest[1] = " " /\ IsIdentifier(rest[2])
                /\ rest[2] \notin SolidityTypes
      THEN [ok |-> TRUE, array |-> arr, name |-> rest[2]]
      ELSE [ok |-> FALSE, array |-> <<>>, name |-> ""]

\* parseAbiParameter on one trimmed piece, and parseAbiParameters on a list
\* of pieces (mutually recursive through tuple components).
RECURSIVE ParseAbiParameter(_)
RECURSIVE ParsePieces(_)
ParseAbiParameter(s) ==
  IF s = <<>> THEN [ok |-> FALSE, param |-> AbiParam(<<>>, "", <<>>, FALSE)]
  ELSE IF Head(s) = "("
  THEN \* tuple: "(" components ")" suffix, the ")" being the last one
       LET close == LastIndexOf(s, ")") + 1
           inner == SubSeq(s, 2, close - 1)
           suf   == ParseSuffix(SubSeq(s, close + 1, Len(s)))
           split == SplitParameters(inner, <<>>, <<>>, 0)
           comps == IF split.ok THEN ParsePieces(split.list)
                    ELSE [ok |-> FALSE, list |-> <<>>]
       IN  IF close = 0 \/ ~suf.ok \/ ~comps.ok \/ comps.list = <<>>
           THEN [ok |-> FALSE, param |-> AbiParam(<<>>, "", <<>>, FALSE)]
           ELSE [ok |-> TRUE,
                 param |-> AbiParam(<<"tuple">> \o suf.array, suf.name,
                                    comps.list, TRUE)]
  ELSE LET suf == ParseSuffix(Tail(s))
       IN  IF Head(s) \notin SolidityTypes \/ ~suf.ok
           THEN [ok |-> FALSE, param |-> AbiParam(<<>>, "", <<>>, FALSE)]
           ELSE [ok |-> TRUE,
                 param |-> AbiParam(<<Head(s)>> \o suf.array, suf.name,
                                    <<>>, FALSE)]

ParsePieces(pieces) ==
  IF pieces = <<>> THEN [ok |-> TRUE, list |-> <<>>]
  ELSE LET first == ParseAbiParameter(Head(pieces))
           rest  == ParsePieces(Tail(pieces))
       IN  IF first.ok /\ rest.ok
           THEN [ok |-> TRUE, list |-> <<first.param>> \o rest.list]
           ELSE [ok |-> FALSE, list |-> <<>>]

\* parseAbiParameters(argsStr): throws (ok = FALSE) on a piece it cannot
\* parse, and also when no parameter at all results (InvalidAbiParametersError)
ParseAbiParameters(argsStr) ==
  LET split  == SplitParameters(argsStr, <<>>, <<>>, 0)
      parsed == IF split.ok THEN ParsePieces(split.list)
                ELSE [ok |-> FALSE, list |-> <<>>]
  IN  IF parsed.ok /\ parsed.list # <<>> THEN parsed
      ELSE [ok |-> FALSE, list |-> <<>>]

-----------------------------------------------------------------------------
(* Canonical signature and selector *)

\* params.map(...).join(','), with records rendered recursively
RECURSIVE GetCanonicalSignatureForParams(_)
GetCanonicalSignatureForParams(params) ==
  IF params = <<>> THEN <<>>
  ELSE LET p    == Head(params)
           this == IF p.type = <<"tuple">> /\ p.hasComponents
                   THEN <<"(">> \o GetCanonicalSignatureForParams(p.components)
                          \o <<")">>
                   ELSE IF p.type = <<"tuple", "[]">> /\ p.hasComponents
                   THEN <<"(">> \o GetCanonicalSignatureForParams(p.components)
                          \o <<")", "[]">>
                   ELSE p.type
       IN  IF Len(params) = 1 THEN this
           ELSE this \o <<",">> \o GetCanonicalSignatureForParams(Tail(params))

\* `${funcName}(${canonicalParams})`
CanonicalSignatureOf(name, params) ==
  name \o <<"(">> \o GetCanonicalSignatureForParams(params) \o <<")">>

\* Stand-in for the character content of a token (stringToBytes)
TokenCode(tok) ==
  CASE tok = "("       -> 1
    [] tok = ")"       -> 2
    [] tok = ","       -> 3
    [] tok = "[]"      -> 4
    [] tok = " "       -> 5
    [] tok = "uint8"   -> 6
    [] tok = "uint256" -> 7
    [] tok = "int8"    -> 8
    [] tok = "bool"    -> 9
    [] tok = "address" -> 10
    [] tok = "bytes4"  -> 11
    [] tok = "string"  -> 12
    [] tok = "bytes"   -> 13
    [] tok = "tuple"   -> 14
    [] tok = "f"       -> 15
    [] tok = "a"       -> 16
    [] tok = "b"       -> 17
    [] tok = "t"       -> 18
    [] OTHER           -> 19

\* a * b modulo 2^16, by halves so that no product leaves 32 bits
MulMod(a, b) ==
  ((((a \div 256) * b) % 65536) * 256 + (a % 256) * b) % 65536

\* mult^k modulo 2^16
RECURSIVE PowMod(_, _)
PowMod(mult, k) ==
  IF k = 0 THEN 1
  ELSE LET half == PowMod(mult, k \div 2)
           sq   == MulMod(half, half)
       IN  IF k % 2 = 1 THEN MulMod(sq, mult) ELSE sq

\* the polynomial hash of text[lo..hi], computed by halves
RECURSIVE PolyHashRange(_, _, _, _)
PolyHashRange(text, mult, lo, hi) ==
  IF lo > hi THEN 0
  ELSE IF lo = hi THEN TokenCode(text[lo])
  ELSE LET mid == (lo + hi) \div 2
       IN  (MulMod(PolyHashRange(text, mult, lo, mid), PowMod(mult, hi - mid))
              + PolyHashRange(text, mult, mid + 1, hi)) % 65536

\* Stand-in for keccak256: a 16-bit polynomial hash of the text, per seed
PolyHash(text, mult, acc) ==
  (MulMod(acc, PowMod(mult, Len(text))) + PolyHashRange(text, mult, 1, Len(text)))
    % 65536

\* n as `digits` hex digits, most significant first (numberToHex with size)
NatToHex(n, digits) ==
  [i \in 1..digits |->
     IF digits - i > 7 THEN 0 ELSE (n \div Pow16(digits - i)) % 16]

\* keccak256(stringToBytes(sig)).slice(0, 10): the first 4 bytes, 8 digits
Selector4(sig) ==
  NatToHex(PolyHash(sig, 31, 7), 4) \o NatToHex(PolyHash(sig, 37, 11), 4)

-----------------------------------------------------------------------------
(* Argument values, and viem's encodeAbiParameters *)

VInt(n)  == [kind |-> "int",  n |-> n, hex |-> <<>>, items |-> <<>>]

\* an integer beyond the range of n: the digits of its magnitude are kept
VBigInt(h) == [kind |-> "int", n |-> Huge, hex |-> h, items |-> <<>>]

VBool(b) == [kind |-> "bool", n |-> IF b THEN 1 ELSE 0, hex |-> <<>>, items |-> <<>>]

\* a hex string value ("0x..."): address, bytesN, bytes
VHex(h)  == [kind |-> "hex",  n |-> 0, hex |-> h, items |-> <<>>]

\* a text value, given by the hex digits of its UTF-8 bytes
VText(h) == [kind |-> "text", n |-> 0, hex |-> h, items |-> <<>>]

\* an array or record value
VList(l) == [kind |-> "list", n |-> 0, hex |-> <<>>, items |-> l]

\* one 32-byte word holding n: two's complement when n < 0
Complement(hex) == [i \in 1..Len(hex) |-> 15 - hex[i]]

NumberToHex32(n) ==
  IF n >= 0 THEN NatToHex(n, 64) ELSE Complement(NatToHex(-n - 1, 64))

EndsWithArray(type) == type # <<>> /\ type[Len(type)] = "[]"

\* type.slice(0, -2) of an array type
ElementType(type) == SubSeq(type, 1, Len(type) - 1)

\* the parameter of one array element: { ...param, type }
ElementParam(param) == [param EXCEPT !.type = ElementType(param.type)]

IntInRange(tok, n) ==
  CASE tok = "uint8"   -> n >= 0 /\ n <= 255
    [] tok = "int8"    -> n >= -128 /\ n <= 127
    [] tok = "uint256" -> n >= 0
    [] OTHER           -> FALSE

FixedBytesDigits(tok) == IF tok = "bytes4" THEN 8 ELSE 0

\* size(hex) rounded up to whole words, in digits
CeilWords(digits) == ((digits + 63) \div 64) * 64

EncFail == [ok |-> FALSE, dynamic |-> FALSE, encoded |-> <<>>]

\* prepareParam: [ok, dynamic, encoded]; encodeParams lays a prepared list
\* out as head words (value, or offset = staticSize + dynamicSize so far)
\* followed by the dynamic blocks in order.
RECURSIVE PrepareParam(_, _)
RECURSIVE PrepareList(_, _)
RECURSIVE StaticSize(_)
RECURSIVE EncodeHeads(_, _)
RECURSIVE EncodeTails(_)

StaticSize(prepared) ==
  IF prepared = <<>> THEN 0
  ELSE (IF Head(prepared).dynamic THEN 32 ELSE Len(Head(prepared).encoded) \div 2)
       + StaticSize(Tail(prepared))

EncodeHeads(prepared, offset) ==
  IF prepared = <<>> THEN <<>>
  ELSE LET p == Head(prepared)
       IN  IF p.dynamic
           THEN NatToHex(offset, 64)
                  \o EncodeHeads(Tail(prepared), offset + Len(p.encoded) \div 2)
           ELSE p.encoded \o EncodeHeads(Tail(prepared), offset)

EncodeTails(prepared) ==
  IF prepared = <<>> THEN <<>>
  ELSE (IF Head(prepared).dynamic THEN Head(prepared).encoded ELSE <<>>)
       \o EncodeTails(Tail(prepared))

EncodeParams(prepared) ==
  EncodeHeads(prepared, StaticSize(prepared)) \o EncodeTails(prepared)

RECURSIVE ConcatEncoded(_)
ConcatEncoded(prepared) ==
  IF prepared = <<>> THEN <<>>
  ELSE Head(prepared).encoded \o ConcatEncoded(Tail(prepared))

AnyDynamic(prepared) == \E i \in 1..Len(prepared) : prepared[i].dynamic

\* params[i] against values[i] for every i; ok only when every one is
PrepareList(params, values) ==
  IF params = <<>> THEN [ok |-> TRUE, list |-> <<>>]
  ELSE LET first == PrepareParam(Head(params), Head(values))
           rest  == PrepareList(Tail(params), Tail(values))
       IN  IF first.ok /\ rest.ok
           THEN [ok |-> TRUE, list |-> <<first>> \o rest.list]
           ELSE [ok |-> FALSE, list |-> <<>>]

\* encodeArray and encodeTuple, given the prepared elements / components
ArrayResult(prep) ==
  IF ~prep.ok THEN EncFail
  ELSE [ok |-> TRUE, dynamic |-> TRUE,
        encoded |-> NatToHex(Len(prep.list), 64) \o EncodeParams(prep.list)]

TupleResult(prep) ==
  IF ~prep.ok THEN EncFail
  ELSE IF AnyDynamic(prep.list)
  THEN [ok |-> TRUE, dynamic |-> TRUE, encoded |-> EncodeParams(prep.list)]
  ELSE [ok |-> TRUE, dynamic |-> FALSE, encoded |-> ConcatEncoded(prep.list)]

\* encodeAddress, encodeBool, encodeNumber, encodeBytes, encodeString
\* whether the UTF-8 bytes of a text spell "0x" and then hex characters only
IsHexText(bytes) ==
  /\ Len(bytes) >= 4
  /\ Len(bytes) % 2 = 0
  /\ SubSeq(bytes, 1, 4) = <<3, 0, 7, 8>>
  /\ \A i \in 1..((Len(bytes) - 4) \div 2) :
       LET hi == bytes[4 + 2 * i - 1]
           lo == bytes[4 + 2 * i]
       IN  \/ hi = 3 /\ lo <= 9
           \/ hi \in {4, 6} /\ lo \in 1..6

\* the digits such a text spells
HexOfText(bytes) ==
  [i \in 1..((Len(bytes) - 4) \div 2) |->
     IF bytes[4 + 2 * i - 1] = 3 THEN bytes[4 + 2 * i] ELSE bytes[4 + 2 * i] + 9]

\* the hex digits of a string argument: isHex(value) and its digits
HexValue(value) ==
  IF value.kind = "hex" THEN [ok |-> TRUE, hex |-> value.hex]
  ELSE IF value.kind = "text" /\ IsHexText(value.hex)
  THEN [ok |-> TRUE, hex |-> HexOfText(value.hex)]
  ELSE [ok |-> FALSE, hex |-> <<>>]

ScalarResult(tok, value) ==
  IF tok = "address"
  THEN IF HexValue(value).ok /\ Len(HexValue(value).hex) = 40
       THEN [ok |-> TRUE, dynamic |-> FALSE,
             encoded |-> PadStart(HexValue(value).hex, 64)]
       ELSE EncFail
  ELSE IF tok = "bool"
  THEN IF value.kind = "bool"
       THEN [ok |-> TRUE, dynamic |-> FALSE, encoded |-> PadStart(<<value.n>>, 64)]
       ELSE EncFail
  ELSE IF tok \in IntTypes
  THEN IF value.kind = "int" /\ IntInRange(tok, value.n)
       THEN [ok |-> TRUE, dynamic |-> FALSE,
             encoded |-> IF value.hex # <<>> THEN PadStart(value.hex, 64)
                         ELSE NumberToHex32(value.n)]
       ELSE EncFail
  ELSE IF tok = "bytes4"
  THEN IF HexValue(value).ok /\ Len(HexValue(value).hex) = FixedBytesDigits(tok)
       THEN [ok |-> TRUE, dynamic |-> FALSE,
             encoded |-> PadEnd(HexValue(value).hex, 64)]
       ELSE EncFail
  ELSE IF tok = "bytes"
  THEN IF HexValue(value).ok /\ Len(HexValue(value).hex) % 2 = 0
       THEN LET hex == HexValue(value).hex
            IN  [ok |-> TRUE, dynamic |-> TRUE,
                 encoded |-> NatToHex(Len(hex) \div 2, 64)
                               \o PadEnd(hex, CeilWords(Len(hex)))]
       ELSE EncFail
  ELSE IF tok = "string"
  THEN IF value.kind = "text"
       THEN [ok |-> TRUE, dynamic |-> TRUE,
             encoded |-> NatToHex(Len(value.hex) \div 2, 64)
                           \o PadEnd(value.hex, CeilWords(Len(value.hex)))]
       ELSE EncFail
  ELSE EncFail

PrepareParam(param, value) ==
  IF EndsWithArray(param.type)
  THEN IF value.kind # "list" THEN EncFail
       ELSE ArrayResult(PrepareList(Repeat(ElementParam(param), Len(value.items)),
                                    value.items))
  ELSE IF param.type = <<"tuple">>
  THEN IF value.kind # "list" \/ Len(value.items) < Len(param.components)
       THEN EncFail
       ELSE TupleResult(PrepareList(param.components,
                                    SubSeq(value.items, 1, Len(param.components))))
  ELSE ScalarResult(param.type[1], value)

\* encodeAbiParameters(params, values).slice(2): fails on a length mismatch
\* and on any value that does not fit its type
EncodeAbiParameters(params, values) ==
  IF Len(params) # Len(values) THEN [ok |-> FALSE, hex |-> <<>>]
  ELSE LET prep == PrepareList(params, values)
       IN  IF prep.ok THEN [ok |-> TRUE, hex |-> EncodeParams(prep.list)]
           ELSE [ok |-> FALSE, hex |-> <<>>]

-----------------------------------------------------------------------------
(* The breakdown: isDynamic, padTo32Bytes, parseDynamicData,               *)
(* buildFlatBreakdown                                                      *)

\* isDynamic without the descent into the components of a record
IsDynamicShallow(abiType) ==
  \/ EndsWithArray(abiType.type)
  \/ abiType.type = <<"string">>
  \/ abiType.type = <<"bytes">>

\* isDynamic with the byte-array test widened to every type that starts with
\* "bytes", so that bytesN counts as dynamic
IsDynamicStartsWithBytes(abiType) ==
  \/ EndsWithArray(abiType.type)
  \/ abiType.type = <<"string">>
  \/ (abiType.type # <<>> /\ abiType.type[1] \in {"bytes", "bytes4"})
  \/ abiType.hasComponents

RECURSIVE IsDynamic(_)
IsDynamic(abiType) ==
  IF EndsWithArray(abiType.type) \/ abiType.type = <<"string">>
       \/ abiType.type = <<"bytes">>
  THEN TRUE
  ELSE IF abiType.hasComponents
  THEN \E i \in 1..Len(abiType.components) : IsDynamic(abiType.components[i])
  ELSE FALSE

\* A CalldataPart.  value holds the hex digits after "0x"; text is the value
\* when it is not hex ("(see components)"); description is <<n>> for the
\* number the description reports, the hex digits of `Original data: 0x...`
\* for the value part of a string or bytes, and <<>> when there is none.
CalldataPart(name, type, value, text, description, components, hasComponents) ==
  [name |-> name, type |-> type, value |-> value, text |-> text,
   description |-> description, components |-> components,
   hasComponents |-> hasComponents]

StartsWithUint(type) == type # <<>> /\ type[1] \in {"uint8", "uint256"}

StartsWithInt(type) == type # <<>> /\ type[1] = "int8"

StartsWithBytes(type) == type # <<>> /\ type[1] \in {"bytes", "bytes4"}

PadTo32Bytes(hex, type) ==
  IF StartsWithUint(type) \/ StartsWithInt(type) \/ type = <<"address">>
  THEN PadStart(hex, 64)
  ELSE IF StartsWithBytes(type) /\ ~EndsWithArray(type)
  THEN PadEnd(hex, 64)
  ELSE hex

\* n * 2 and 64 + n * 2 in JavaScript numbers
Times2(n) == IF n = NaN THEN NaN ELSE IF n >= Huge THEN Huge ELSE n * 2

Plus64(n) == IF n = NaN THEN NaN ELSE IF n >= Huge THEN Huge ELSE n + 64

\* `${n}` of a parsed number, for a description
Describe(n) == <<n>>

\* param.name || `param${i}`
ParamName(param, i) == IF param.name # "" THEN <<param.name>> ELSE <<"param", ToString(i)>>

\* `${paramName} (${param.type})`
HeadName(param, i) == ParamName(param, i) \o <<" ", "(">> \o param.type \o <<")">>

\* Length in hex chars of a static tuple's head data, as the first pass
\* computes it
TupleDataLength(param) == Len(param.components) * 64

\* the comparison of the sort turned round: larger offsets first
OffsetAfter(a, b) == a.offset # NaN /\ b.offset # NaN /\ a.offset > b.offset

\* dynamicItems.sort((a, b) => a.offset - b.offset): stable, NaN compares
\* equal to everything
OffsetBefore(a, b) == a.offset # NaN /\ b.offset # NaN /\ a.offset < b.offset

RECURSIVE InsertByOffset(_, _)
InsertByOffset(sorted, item) ==
  IF sorted = <<>> THEN <<item>>
  ELSE IF OffsetBefore(item, sorted[Len(sorted)])
  THEN Append(InsertByOffset(SubSeq(sorted, 1, Len(sorted) - 1), item),
              sorted[Len(sorted)])
  ELSE Append(sorted, item)

RECURSIVE SortByOffset(_)
SortByOffset(items) ==
  IF items = <<>> THEN <<>>
  ELSE InsertByOffset(SortByOffset(SubSeq(items, 1, Len(items) - 1)),
                      items[Len(items)])

\* [dataStart, dataEnd) of the i-th sorted dynamic item (1-based i)
DataStart(items, i) == Times2(items[i].offset)

\* dataEnd without the look at the next item: every window runs to the end
DataEndOfArea(items, i, encodedDataHex) == Len(encodedDataHex)

DataEnd(items, i, encodedDataHex) ==
  IF i < Len(items) THEN Times2(items[i + 1].offset) ELSE Len(encodedDataHex)

ItemDataHex(items, i, encodedDataHex) ==
  JsSubstring(encodedDataHex, DataStart(items, i), DataEnd(items, i, encodedDataHex))

RECURSIVE ParseDynamicData(_, _)
RECURSIVE FirstPass(_, _, _, _)
RECURSIVE TailParts(_, _, _)
RECURSIVE BuildFlatBreakdown(_, _)

\* the for loop of parseDynamicData over the array items i..length-1, one
\* part per turn of the loop
ArrayItemParts(elementType, itemsDataHex, i, length) ==
  [k \in 1..(length - i) |->
     CalldataPart(<<"[", ToString(i + k - 1), "]">>, elementType,
                  PadTo32Bytes(JsSubstring(itemsDataHex, (i + k - 1) * 64,
                                           (i + k - 1) * 64 + 64),
                               elementType),
                  "", <<>>, <<>>, FALSE)]

ParseDynamicData(param, dataHex) ==
  IF EndsWithArray(param.type)
  THEN LET elementType == ElementType(param.type)
           length      == ParseInt16(JsSubstring(dataHex, 0, 64))
       IN  <<CalldataPart(<<"length">>, <<"uint256">>, JsSubstring(dataHex, 0, 64),
                          "", Describe(length), <<>>, FALSE)>>
           \o ArrayItemParts(elementType, JsSubstringFrom(dataHex, 64), 0, length)
  ELSE IF param.type = <<"string">> \/ param.type = <<"bytes">>
  THEN LET length     == ParseInt16(JsSubstring(dataHex, 0, 64))
           data       == JsSubstring(dataHex, 64, Plus64(Times2(length)))
           paddedData == PadEnd(data, CeilWords(Len(data)))
       IN  << CalldataPart(<<"length">>, <<"uint256">>, JsSubstring(dataHex, 0, 64),
                           "", Describe(length), <<>>, FALSE),
              CalldataPart(<<"value">>,
                           IF param.type = <<"string">> THEN <<"utf8">> ELSE <<"hex">>,
                           paddedData, "", data, <<>>, FALSE) >>
  ELSE IF param.hasComponents
  THEN LET nested == BuildFlatBreakdown(param.components, dataHex)
       IN  nested.headParts \o nested.tailParts
  ELSE <<CalldataPart(<<"data">>, <<"bytes">>, dataHex, "", <<>>, <<>>, FALSE)>>

\* the first pass (params.forEach) from the parameter of 0-based index i on:
\* the head parts and the dynamic items, in declaration order
FirstPass(params, i, encodedDataHex, headCursor) ==
  IF i >= Len(params) THEN [headParts |-> <<>>, dynamicItems |-> <<>>]
  ELSE
    LET param == params[i + 1]
    IN  IF IsDynamic(param)
        THEN LET headSlotHex == JsSubstring(encodedDataHex, headCursor, headCursor + 64)
                 offset      == ParseInt16(headSlotHex)
                 rest        == FirstPass(params, i + 1, encodedDataHex, headCursor + 64)
             IN  [headParts |->
                    <<CalldataPart(HeadName(param, i), <<"bytes32">>, headSlotHex,
                                   "", Describe(offset), <<>>, FALSE)>>
                    \o rest.headParts,
                  dynamicItems |->
                    <<[param |-> param, name |-> ParamName(param, i),
                       offset |-> offset]>> \o rest.dynamicItems]
        ELSE IF param.hasComponents /\ param.type = <<"tuple">>
        THEN LET tupleDataLength == TupleDataLength(param)
                 staticTupleData ==
                   JsSubstring(encodedDataHex, headCursor, headCursor + tupleDataLength)
                 nested == BuildFlatBreakdown(param.components, staticTupleData)
                 rest   == FirstPass(params, i + 1, encodedDataHex,
                                     headCursor + tupleDataLength)
             IN  [headParts |->
                    <<CalldataPart(HeadName(param, i), <<"tuple">>, staticTupleData,
                                   "", <<>>, nested.headParts \o nested.tailParts,
                                   TRUE)>>
                    \o rest.headParts,
                  dynamicItems |-> rest.dynamicItems]
        ELSE LET headSlotHex == JsSubstring(encodedDataHex, headCursor, headCursor + 64)
                 rest        == FirstPass(params, i + 1, encodedDataHex, headCursor + 64)
             IN  [headParts |->
                    <<CalldataPart(HeadName(param, i), <<"bytes32">>,
                                   PadTo32Bytes(headSlotHex, param.type),
                                   "", <<>>, <<>>, FALSE)>>
                    \o rest.headParts,
                  dynamicItems |-> rest.dynamicItems]

\* the dynamic items of one level, sorted by offset
SortedDynamicItems(params, encodedDataHex) ==
  SortByOffset(FirstPass(params, 0, encodedDataHex, 0).dynamicItems)

\* the second pass (dynamicItems.forEach) from the sorted item i (1-based) on
TailParts(items, i, encodedDataHex) ==
  IF i > Len(items) THEN <<>>
  ELSE <<CalldataPart(<<"Tail for ">> \o items[i].name, items[i].param.type,
                      <<>>, "(see components)", Describe(items[i].offset),
                      ParseDynamicData(items[i].param,
                                       ItemDataHex(items, i, encodedDataHex)),
                      TRUE)>>
       \o TailParts(items, i + 1, encodedDataHex)

\* buildFlatBreakdown with headParts declared outside the function: the
\* list is not fresh, it still holds what the call before left in it
BuildFlatBreakdownSharedParts(params, encodedDataHex) ==
  [headParts |-> (IF results # <<>> THEN results[Len(results)].parts ELSE <<>>)
                   \o FirstPass(params, 0, encodedDataHex, 0).headParts,
   tailParts |-> TailParts(SortedDynamicItems(params, encodedDataHex), 1,
                           encodedDataHex)]

BuildFlatBreakdown(params, encodedDataHex) ==
  [headParts |-> FirstPass(params, 0, encodedDataHex, 0).headParts,
   tailParts |-> TailParts(SortedDynamicItems(params, encodedDataHex), 1,
                           encodedDataHex)]

\* whether some array loop of the decomposition runs beyond MaxItems turns
RECURSIVE LoopsBeyondMaxItems(_, _)
LoopsBeyondMaxItems(params, encodedDataHex) ==
  LET items == SortedDynamicItems(params, encodedDataHex)
  IN  \E i \in 1..Len(items) :
        LET param   == items[i].param
            dataHex == ItemDataHex(items, i, encodedDataHex)
        IN  IF EndsWithArray(param.type)
            THEN ParseInt16(JsSubstring(dataHex, 0, 64)) > MaxItems
            ELSE IF param.type = <<"string">> \/ param.type = <<"bytes">>
            THEN FALSE
            ELSE param.hasComponents
                   /\ LoopsBeyondMaxItems(param.components, dataHex)

-----------------------------------------------------------------------------
(* Inputs: signature texts and value trees *)

Scalar(tok) == AbiParam(<<tok>>, "", <<>>, FALSE)

ArrayOf(param) == [param EXCEPT !.type = @ \o <<"[]">>]

TupleOf(components) == AbiParam(<<"tuple">>, "", components, TRUE)

\* (uint256,bool), ((uint8,uint8),uint256), (uint256,string)
StaticTuple == TupleOf(<<Scalar("uint256"), Scalar("bool")>>)

NestedStaticTuple ==
  TupleOf(<<TupleOf(<<Scalar("uint8"), Scalar("uint8")>>), Scalar("uint256")>>)

DynamicTuple == TupleOf(<<Scalar("uint256"), Scalar("string")>>)

\* n times the byte with hex digits hi, lo
HexOfByte(hi, lo, n) == [i \in 1..(2 * n) |-> IF i % 2 = 1 THEN hi ELSE lo]

\* "hi" in UTF-8, and a 33-byte blob (one byte more than a word)
TextHi == VText(<<6, 8, 6, 9>>)

Blob33 == VHex(HexOfByte(10, 11, 33))

Address1 == VHex(Repeat(1, 40))

Bytes4Value == VHex(<<10, 10, 11, 11, 12, 12, 13, 13>>)

\* An argument: a parameter type with a value for it
Arg(param, value) == [param |-> param, value |-> value]

\* uint256[] holding 1..n
UintArrayArg(n) ==
  Arg(ArrayOf(Scalar("uint256")), VList([i \in 1..n |-> VInt(i)]))

ScalarArgs ==
  { Arg(Scalar("uint8"), VInt(1)), Arg(Scalar("uint8"), VInt(255)),
    Arg(Scalar("uint256"), VInt(7)),
    Arg(Scalar("int8"), VInt(-1)), Arg(Scalar("int8"), VInt(5)),
    Arg(Scalar("bool"), VBool(TRUE)), Arg(Scalar("bool"), VBool(FALSE)),
    Arg(Scalar("address"), Address1),
    Arg(Scalar("bytes4"), Bytes4Value) }

MixedArgs ==
  { Arg(Scalar("uint8"), VInt(1)),
    Arg(Scalar("int8"), VInt(-1)),
    Arg(Scalar("bytes4"), Bytes4Value),
    Arg(Scalar("string"), TextHi),
    Arg(Scalar("bytes"), Blob33),
    Arg(ArrayOf(Scalar("string")), VList(<<TextHi>>)),
    Arg(StaticTuple, VList(<<VInt(7), VBool(TRUE)>>)),
    Arg(NestedStaticTuple, VList(<<VList(<<VInt(0), VInt(2)>>), VInt(32)>>)),
    Arg(DynamicTuple, VList(<<VInt(7), TextHi>>)) }
  \cup { UintArrayArg(n) : n \in 0..MaxArrayLen }

SigArgs ==
  { Arg(Scalar("uint8"), VInt(1)),
    Arg(Scalar("string"), TextHi),
    Arg(StaticTuple, VList(<<VInt(7), VBool(TRUE)>>)),
    Arg(ArrayOf(DynamicTuple), VList(<<VList(<<VInt(7), TextHi>>)>>)) }

\* arrays of every element kind, of 0..MaxArrayLen elements, and one scalar
ArrayArgs ==
  { Arg(Scalar("uint8"), VInt(1)) }
  \cup { UintArrayArg(n) : n \in 0..MaxArrayLen }
  \cup { Arg(ArrayOf(Scalar("string")), VList(Repeat(TextHi, n))) :
            n \in 0..MaxArrayLen }
  \cup { Arg(ArrayOf(StaticTuple), VList(Repeat(VList(<<VInt(7), VBool(TRUE)>>), n))) :
            n \in 0..MaxArrayLen }
  \cup { Arg(ArrayOf(DynamicTuple), VList(Repeat(VList(<<VInt(7), TextHi>>), n))) :
            n \in 0..MaxArrayLen }

\* a record whose only dynamic field lies two levels down
DeepDynamicTuple ==
  TupleOf(<<TupleOf(<<Scalar("uint8"), Scalar("string")>>), Scalar("uint8")>>)

\* one argument of every kind of type
KindArgs ==
  { Arg(Scalar("uint8"), VInt(1)),
    Arg(Scalar("bool"), VBool(TRUE)),
    Arg(Scalar("address"), Address1),
    Arg(Scalar("bytes4"), Bytes4Value),
    Arg(Scalar("string"), TextHi),
    Arg(Scalar("bytes"), Blob33),
    UintArrayArg(1),
    Arg(ArrayOf(StaticTuple), VList(<<VList(<<VInt(7), VBool(TRUE)>>)>>)),
    Arg(StaticTuple, VList(<<VInt(7), VBool(TRUE)>>)),
    Arg(NestedStaticTuple, VList(<<VList(<<VInt(0), VInt(2)>>), VInt(32)>>)),
    Arg(DynamicTuple, VList(<<VInt(7), TextHi>>)),
    Arg(DeepDynamicTuple, VList(<<VList(<<VInt(1), TextHi>>), VInt(2)>>)) }

\* all argument lists of at most MaxParams arguments
ArgLists(universe) == UNION { [1..n -> universe] : n \in 0..MaxParams }

NameTokens == <<"a", "b", "t", "x">>

NameAt(i) == IF i <= Len(NameTokens) THEN NameTokens[i] ELSE "x"

\* The parameter list as text: types joined by ",", each followed by one
\* space and a name when `named`
RECURSIVE RenderParams(_, _, _)
RenderParams(params, i, named) ==
  IF i > Len(params) THEN <<>>
  ELSE LET p    == params[i]
           base == IF p.hasComponents
                   THEN <<"(">> \o RenderParams(p.components, 1, named) \o <<")">>
                          \o Tail(p.type)
                   ELSE p.type
           one  == base \o (IF named THEN <<" ", NameAt(i)>> ELSE <<>>)
       IN  one \o (IF i < Len(params) THEN <<",">> ELSE <<>>)
               \o RenderParams(params, i + 1, named)

\* name, optional whitespace, "(", parameters, ")"
RenderSignature(name, space, params, named) ==
  <<name>> \o (IF space THEN <<" ">> ELSE <<>>) \o <<"(">>
    \o RenderParams(params, 1, named) \o <<")">>

ParamsOf(args) == [i \in 1..Len(args) |-> args[i].param]

ValuesOf(args) == [i \in 1..Len(args) |-> args[i].value]

\* Texts that are no function signature
MalformedTexts ==
  { <<"f">>, <<"f", " ", "uint8">>, <<"f", "(", "uint8">>, <<"f", ")">>,
    <<"uint8", ")">>, <<"f", "(", "uint8", " ", " ", "a", ")">>,
    <<"f", "(", "word", ")">> }

-----------------------------------------------------------------------------
(* encodeFunctionCall, step by step *)

\* a match that never fails: the name is whatever precedes the last "(",
\* the whole of nothing when there is none
FuncNameMatchAlways(fullSignature) ==
  [matched |-> TRUE,
   name |-> JsSubstring(fullSignature, 0, LastIndexOf(fullSignature, "("))]

\* fullSignature.match(/^(.*)\s*\(/): (.*) is greedy, so the match ends at
\* the LAST "(" and group 1 is everything before it
FuncNameMatch(fullSignature) ==
  IF LastIndexOf(fullSignature, "(") = -1
  THEN [matched |-> FALSE, name |-> <<>>]
  ELSE [matched |-> TRUE,
        name |-> JsSubstring(fullSignature, 0, LastIndexOf(fullSignature, "("))]

\* fullSignature.substring(indexOf('(') + 1, lastIndexOf(')'))
ArgsStr(fullSignature) ==
  JsSubstring(fullSignature, IndexOf(fullSignature, "(") + 1,
              LastIndexOf(fullSignature, ")"))

\* the theme toggle is not followed
ThemeUnmounted ==
  /\ mounted = FALSE
  /\ isDarkMode = FALSE
  /\ savedTheme = "none"
  /\ storedTheme = "none"
  /\ darkClass = FALSE
  /\ prefersDark = FALSE
  /\ themePc = "unmounted"
  /\ toggled = FALSE
  /\ themeSteps = 0

\* the page is not mounted: encodeFunctionCall is called directly
PageUnmounted ==
  /\ ThemeUnmounted
  /\ pageInput = <<>>
  /\ debouncedInput = <<>>
  /\ pageAbiParams = <<>>
  /\ pageArgValues = <<>>
  /\ encoded = [error |-> FALSE, text |-> <<>>]
  /\ pageParts = <<>>
  /\ edits = 0

InitCall(text, values) ==
  /\ PageUnmounted
  /\ input = text
  /\ argValues = values
  /\ pc = "start"
  /\ funcName = <<>>
  /\ abiParams = <<>>
  /\ canonicalSignature = <<>>
  /\ selector = <<>>
  /\ encodedParamsHex = <<>>
  /\ calldata = <<>>
  /\ parts = <<>>
  /\ results = <<>>

\* calls with plain signatures over arguments of every kind
Init ==
  \E args \in ArgLists(MixedArgs) :
    InitCall(RenderSignature("f", FALSE, ParamsOf(args), FALSE), ValuesOf(args))

\* calls whose parameters are all static scalars
InitScalar ==
  \E args \in ArgLists(ScalarArgs) :
    InitCall(RenderSignature("f", FALSE, ParamsOf(args), FALSE), ValuesOf(args))

\* calls over arrays of every element kind
InitArray ==
  \E args \in ArgLists(ArrayArgs) :
    InitCall(RenderSignature("f", FALSE, ParamsOf(args), FALSE), ValuesOf(args))

\* calls over one argument of every kind of type
InitKinds ==
  \E args \in ArgLists(KindArgs) :
    InitCall(RenderSignature("f", FALSE, ParamsOf(args), FALSE), ValuesOf(args))

\* calls with every spelling of the signature, and texts that are none
InitSig ==
  \/ \E args \in ArgLists(SigArgs), space \in BOOLEAN, named \in BOOLEAN :
       InitCall(RenderSignature("f", space, ParamsOf(args), named), ValuesOf(args))
  \/ \E text \in MalformedTexts : InitCall(text, <<>>)

\* 1. Parse Input
ParseInput ==
  /\ pc = "start"
  /\ LET fullSignature == Trim(input)
         funcNameMatch == FuncNameMatch(fullSignature)
         parsed        == ParseAbiParameters(ArgsStr(fullSignature))
     IN  IF ~funcNameMatch.matched
         THEN /\ pc' = "error"
              /\ UNCHANGED <<funcName, abiParams>>
         ELSE IF ~parsed.ok
         THEN /\ pc' = "error"
              /\ funcName' = funcNameMatch.name
              /\ UNCHANGED abiParams
         ELSE /\ pc' = "parsed"
              /\ funcName' = funcNameMatch.name
              /\ abiParams' = parsed.list
  /\ UNCHANGED <<input, argValues, canonicalSignature, selector,
                 encodedParamsHex, calldata, parts>>
  /\ UNCHANGED <<results, pageVars, themeVars>>

\* canonical signature, and 2. Calculate Function Selector
CalculateSelector ==
  /\ pc = "parsed"
  /\ canonicalSignature' = CanonicalSignatureOf(funcName, abiParams)
  /\ selector' = Selector4(CanonicalSignatureOf(funcName, abiParams))
  /\ pc' = "selected"
  /\ UNCHANGED <<input, argValues, funcName, abiParams, encodedParamsHex,
                 calldata, parts>>
  /\ UNCHANGED <<results, pageVars, themeVars>>

\* 3. Encode Parameters and 4. Assemble Calldata
EncodeParameters ==
  /\ pc = "selected"
  /\ LET enc == EncodeAbiParameters(abiParams, argValues)
     IN  IF enc.ok
         THEN /\ encodedParamsHex' = enc.hex
              /\ pc' = "encoded"
         ELSE /\ pc' = "error"
              /\ UNCHANGED encodedParamsHex
  /\ UNCHANGED <<input, argValues, funcName, abiParams, canonicalSignature,
                 selector, calldata, parts>>
  /\ UNCHANGED <<results, pageVars, themeVars>>

\* the 'Function Selector' part
SelectorPart(sel, sig) ==
  CalldataPart(<<"Function Selector">>, <<"bytes4">>, sel, "", <<>>, <<>>, FALSE)

\* 5. Build the flat breakdown, and return
BuildBreakdown ==
  /\ pc = "encoded"
  /\ IF LoopsBeyondMaxItems(abiParams, encodedParamsHex)
     THEN /\ pc' = "exhausted"
          /\ UNCHANGED <<calldata, parts>>
     ELSE /\ LET breakdown == BuildFlatBreakdown(abiParams, encodedParamsHex)
              IN  parts' = <<SelectorPart(selector, canonicalSignature)>>
                             \o breakdown.headParts \o breakdown.tailParts
          /\ calldata' = selector \o encodedParamsHex
          /\ pc' = "done"
  /\ UNCHANGED <<input, argValues, funcName, abiParams, canonicalSignature,
                 selector, encodedParamsHex>>
  /\ UNCHANGED <<results, pageVars, themeVars>>

Next == ParseInput \/ CalculateSelector \/ EncodeParameters \/ BuildBreakdown

\* the calls one caller makes one after the other: signatures of static and
\* dynamic parameters, a text that is no signature, a value of the wrong type
CallerCalls ==
  { [input |-> <<"f", "(", "uint8", ")">>, argValues |-> <<VInt(1)>>],
    [input |-> <<"f", "(", "uint8", ")">>, argValues |-> <<VInt(2)>>],
    [input |-> <<"f", "(", "string", ",", "uint8", ")">>,
     argValues |-> <<TextHi, VInt(1)>>],
    [input |-> <<"f", "(", "uint8", "[]", ",", "string", ")">>,
     argValues |-> <<VList(<<VInt(1), VInt(2)>>), TextHi>>],
    [input |-> <<"f">>, argValues |-> <<>>],
    [input |-> <<"f", "(", "uint8", ")">>, argValues |-> <<TextHi>>] }

\* the first call of a caller
InitCaller == \E call \in CallerCalls : InitCall(call.input, call.argValues)

\* The call has come back (with its result, or with an exception): the
\* caller keeps what it got and calls again. Every local of the function is
\* declared inside it, so the new invocation starts with none set.
NextCall ==
  /\ pc \in {"done", "error"}
  /\ Len(results) < MaxCalls
  /\ results' = Append(results, [input |-> input, argValues |-> argValues,
                                 returned |-> pc = "done",
                                 calldata |-> calldata, parts |-> parts])
  /\ \E call \in CallerCalls :
       /\ input' = call.input
       /\ argValues' = call.argValues
  /\ pc' = "start"
  /\ funcName' = <<>>
  /\ abiParams' = <<>>
  /\ canonicalSignature' = <<>>
  /\ selector' = <<>>
  /\ encodedParamsHex' = <<>>
  /\ calldata' = <<>>
  /\ parts' = <<>>
  /\ UNCHANGED <<pageVars, themeVars>>

NextCaller ==
  ParseInput \/ CalculateSelector \/ EncodeParameters \/ BuildBreakdown \/ NextCall

SpecCaller == InitCaller /\ [][NextCaller]_vars

Spec == Init /\ [][Next]_vars

SpecScalar == InitScalar /\ [][Next]_vars

SpecSig == InitSig /\ [][Next]_vars

SpecArray == InitArray /\ [][Next]_vars

SpecKinds == InitKinds /\ [][Next]_vars

-----------------------------------------------------------------------------
(* encodeFunctionCall as one synchronous call, as the page makes it *)

\* the result of encodeFunctionCall(signature, args): the steps of the
\* function run to the end ("returned"), one of them throws ("thrown"), or
\* an array loop of the breakdown does not end within MaxItems turns.
\* Each local of the function is computed once and then named: the sets of
\* one element below bind funcNameMatch, abiParams and encodedParamsHex.
EncodeFunctionCall(signature, args) ==
  LET fullSignature == Trim(signature)
      thrown        == [outcome |-> "thrown", calldata |-> <<>>, parts |-> <<>>]
      Breakdown(sig, sel, params, encodedHex) ==
        IF LoopsBeyondMaxItems(params, encodedHex)
        THEN [outcome |-> "exhausted", calldata |-> <<>>, parts |-> <<>>]
        ELSE [outcome |-> "returned",
              calldata |-> sel \o encodedHex,
              parts |-> <<SelectorPart(sel, sig)>>
                          \o BuildFlatBreakdown(params, encodedHex).headParts
                          \o BuildFlatBreakdown(params, encodedHex).tailParts]
      Encode(sig, params, values) ==
        CHOOSE r \in { IF ~enc.ok THEN thrown
                       ELSE Breakdown(sig, Selector4(sig), params, enc.hex) :
                       enc \in {EncodeAbiParameters(params, values)} } : TRUE
      Steps(funcNameMatch, parsed, values) ==
        IF ~funcNameMatch.matched \/ ~parsed.ok THEN thrown
        ELSE Encode(CanonicalSignatureOf(Trim(funcNameMatch.name), parsed.list),
                    parsed.list, values)
  IN  CHOOSE r \in { Steps(funcNameMatch, parsed, values) :
                       funcNameMatch \in {FuncNameMatch(fullSignature)},
                       parsed \in {ParseAbiParameters(ArgsStr(fullSignature))},
                       values \in {args} } : TRUE

-----------------------------------------------------------------------------
(* The page: app/page.tsx *)

\* A Value of the page: the text of one argument field, or the list of the
\* Values of the fields of a record
FieldText(text) == [leaf |-> TRUE, text |-> text, items |-> <<>>]

FieldGroup(items) == [leaf |-> FALSE, text |-> <<>>, items |-> items]

\* the address the user can type, as one token, and its 40 digits
AddressLiteral == "0x1111111111111111111111111111111111111111"

\* the UTF-8 bytes (as hex digits) of a token of a field text
Utf8Token(tok) ==
  CASE tok = "1"    -> <<3, 1>>
    [] tok = "2"    -> <<3, 2>>
    [] tok = "5"    -> <<3, 5>>
    [] tok = ","    -> <<2, 12>>
    [] tok = " "    -> <<2, 0>>
    [] tok = "abc"  -> <<6, 1, 6, 2, 6, 3>>
    [] tok = "true" -> <<7, 4, 7, 2, 7, 5, 6, 5>>
    [] tok = AddressLiteral -> <<3, 0, 7, 8>> \o HexOfByte(3, 1, 40)
    [] OTHER        -> <<3, 15>>

RECURSIVE Utf8(_)
Utf8(text) == IF text = <<>> THEN <<>> ELSE Utf8Token(Head(text)) \o Utf8(Tail(text))

\* BigInt(text): the integer a text spells; a SyntaxError (ok = FALSE) when
\* it spells none. The empty text, and a text of spaces, is 0n.
BigIntOf(text) ==
  LET t == Trim(text)
  IN  IF t = <<>> THEN [ok |-> TRUE, value |-> VInt(0)]
      ELSE IF t = <<"1">> THEN [ok |-> TRUE, value |-> VInt(1)]
      ELSE IF t = <<"2">> THEN [ok |-> TRUE, value |-> VInt(2)]
      ELSE IF t = <<"5">> THEN [ok |-> TRUE, value |-> VInt(5)]
      ELSE IF t = <<AddressLiteral>>
      THEN [ok |-> TRUE, value |-> VBigInt(Repeat(1, 40))]
      ELSE [ok |-> FALSE, value |-> VInt(0)]

\* param.type.includes('uint') || param.type.includes('int')
TypeIncludesInt(type) == \E i \in 1..Len(type) : type[i] \in IntTypes

\* buildInitialValues without the branch on components: '' per parameter
BuildInitialValuesFlat(p) == [i \in 1..Len(p) |-> FieldText(<<>>)]

\* buildInitialValues: '' per field, a nested list per record
RECURSIVE BuildInitialValues(_)
BuildInitialValues(p) ==
  [i \in 1..Len(p) |->
     IF p[i].hasComponents THEN FieldGroup(BuildInitialValues(p[i].components))
     ELSE FieldText(<<>>)]

\* processValues(params, values): the arguments handed to the encoder, or
\* a TypeError (ok = FALSE) where the code dereferences what is not there
RECURSIVE ProcessValues(_, _)
ProcessValue(params, values, i) ==
  LET val == values[i]
  IN  IF i > Len(params) THEN [ok |-> FALSE, value |-> VInt(0)]
      ELSE IF params[i].hasComponents
      THEN IF val.leaf /\ val.text # <<>>
           THEN [ok |-> FALSE, value |-> VInt(0)]
           ELSE LET inner == ProcessValues(params[i].components, val.items)
                IN  [ok |-> inner.ok, value |-> VList(inner.list)]
      ELSE IF ~val.leaf THEN [ok |-> FALSE, value |-> VInt(0)]
      ELSE IF TypeIncludesInt(params[i].type)
      THEN IF BigIntOf(val.text).ok
           THEN [ok |-> TRUE, value |-> BigIntOf(val.text).value]
           ELSE [ok |-> TRUE, value |-> VInt(0)]
      ELSE IF params[i].type = <<"bool">>
      THEN [ok |-> TRUE, value |-> VBool(val.text = <<"true">>)]
      ELSE [ok |-> TRUE, value |-> VText(Utf8(val.text))]

ProcessValues(params, values) ==
  [ok   |-> \A i \in 1..Len(values) : ProcessValue(params, values, i).ok,
   list |-> [i \in 1..Len(values) |-> ProcessValue(params, values, i).value]]

\* what handleEncode leaves in `encoded` and `parts`; `finished` is false
\* when the call never comes back
NoText == [error |-> FALSE, text |-> <<>>]

ErrorText == [error |-> TRUE, text |-> <<>>]

\* handleEncode without setParts([]) in its catch branch: the breakdown of
\* the call before stays on the page
HandleEncodeKeepsParts(signature, params, values) ==
  LET Shown(processed, result) ==
        IF ~processed.ok \/ result.outcome = "thrown"
        THEN [finished |-> TRUE, encoded |-> ErrorText, parts |-> pageParts]
        ELSE IF result.outcome = "exhausted"
        THEN [finished |-> FALSE, encoded |-> NoText, parts |-> <<>>]
        ELSE [finished |-> TRUE,
              encoded |-> [error |-> FALSE, text |-> result.calldata],
              parts |-> result.parts]
      Call(processed) ==
        CHOOSE r \in { Shown(processed, result) :
                         result \in {EncodeFunctionCall(signature, processed.list)} } : TRUE
  IN  CHOOSE r \in { Call(processed) :
                       processed \in {ProcessValues(params, values)} } : TRUE

HandleEncodeResult(signature, params, values) ==
  LET Shown(processed, result) ==
        IF ~processed.ok \/ result.outcome = "thrown"
        THEN [finished |-> TRUE, encoded |-> ErrorText, parts |-> <<>>]
        ELSE IF result.outcome = "exhausted"
        THEN [finished |-> FALSE, encoded |-> NoText, parts |-> <<>>]
        ELSE [finished |-> TRUE,
              encoded |-> [error |-> FALSE, text |-> result.calldata],
              parts |-> result.parts]
      Call(processed) ==
        CHOOSE r \in { Shown(processed, result) :
                         result \in {EncodeFunctionCall(signature, processed.list)} } : TRUE
  IN  CHOOSE r \in { Call(processed) :
                       processed \in {ProcessValues(params, values)} } : TRUE

\* the effect on [debouncedInput]
EffectResult(text) ==
  LET Result(parsed) ==
        IF parsed.ok
        THEN [abiParams |-> parsed.list, argValues |-> BuildInitialValues(parsed.list)]
        ELSE [abiParams |-> <<>>, argValues |-> <<>>]
  IN  CHOOSE r \in { Result(parsed) :
                       parsed \in {ParseAbiParameters(ArgsStr(text))} } : TRUE

\* the signature the page starts with
DefaultInput ==
  <<"transferFrom", "(", "address", " ", "from", ",", " ", "address", " ",
    "to", ",", " ", "uint256", " ", "amount", ")">>

\* the signatures the user types
PageTexts ==
  { <<"f", "(", "uint8", ")">>,
    <<"f", "(", "uint256", "[]", ")">>,
    <<"f", "(", "address", "[]", ")">>,
    <<"f", "(", "(", "uint8", ",", "bool", ")", ")">>,
    <<"f">> }

\* the texts the user types into an argument field
FieldTexts ==
  { <<"5">>, <<"abc">>, <<"true">>, <<"1", ",", "2">>,
    <<AddressLiteral>>, <<AddressLiteral, ",", AddressLiteral>> }

\* the input fields ArgInputs renders: a path of indices through the records
FieldPaths(values) ==
  { <<i>> : i \in { k \in 1..Len(values) : values[k].leaf } }
    \cup { <<i, j>> : i \in { k \in 1..Len(values) : ~values[k].leaf },
                      j \in 1..MaxParams }

HasField(values, path) ==
  /\ path \in FieldPaths(values)
  /\ Len(path) = 2 => /\ path[2] <= Len(values[path[1]].items)
                      /\ values[path[1]].items[path[2]].leaf

\* onValueChange: the list with the field at path replaced
SetField(values, path, text) ==
  IF Len(path) = 1
  THEN [values EXCEPT ![path[1]] = FieldText(text)]
  ELSE [values EXCEPT ![path[1]] =
          FieldGroup([values[path[1]].items EXCEPT ![path[2]] = FieldText(text)])]

\* no call of encodeFunctionCall is followed step by step
CallIdle ==
  /\ input = <<>>
  /\ argValues = <<>>
  /\ pc = "idle"
  /\ funcName = <<>>
  /\ abiParams = <<>>
  /\ canonicalSignature = <<>>
  /\ selector = <<>>
  /\ encodedParamsHex = <<>>
  /\ calldata = <<>>
  /\ parts = <<>>
  /\ results = <<>>

\* the page after it is mounted and its first effect has run
InitPage ==
  /\ CallIdle
  /\ ThemeUnmounted
  /\ pageInput = DefaultInput
  /\ debouncedInput = DefaultInput
  /\ \E effect \in {EffectResult(DefaultInput)} :
       /\ pageAbiParams = effect.abiParams
       /\ pageArgValues = effect.argValues
  /\ encoded = NoText
  /\ pageParts = <<>>
  /\ edits = 0

\* the user edits the signature (onChange of the signature field)
EditInput ==
  /\ edits < MaxEdits
  /\ \E text \in PageTexts \cup {DefaultInput} :
       /\ text # pageInput
       /\ pageInput' = text
  /\ edits' = edits + 1
  /\ UNCHANGED <<debouncedInput, pageAbiParams, pageArgValues, encoded, pageParts>>
  /\ UNCHANGED <<callVars, themeVars>>

\* useDebounce: 500 ms after the last edit, debouncedInput follows input
DebounceFires ==
  /\ debouncedInput # pageInput
  /\ debouncedInput' = pageInput

\* the timer fires, and the effect on [debouncedInput] replaces abiParams
\* and argValues
Debounce ==
  /\ DebounceFires
  /\ \E effect \in {EffectResult(pageInput)} :
       /\ pageAbiParams' = effect.abiParams
       /\ pageArgValues' = effect.argValues
  /\ UNCHANGED <<pageInput, encoded, pageParts, edits>>
  /\ UNCHANGED <<callVars, themeVars>>

\* the user edits an argument field (onChange of an ArgInputs field)
EditValue ==
  /\ edits < MaxEdits
  /\ \E path \in FieldPaths(pageArgValues), text \in FieldTexts :
       /\ HasField(pageArgValues, path)
       /\ pageArgValues' = SetField(pageArgValues, path, text)
       /\ pageArgValues' # pageArgValues
  /\ edits' = edits + 1
  /\ UNCHANGED <<pageInput, debouncedInput, pageAbiParams, encoded, pageParts>>
  /\ UNCHANGED <<callVars, themeVars>>

\* the user clicks Encode: handleEncode
ClickEncode ==
  /\ \E result \in {HandleEncodeResult(pageInput, pageAbiParams, pageArgValues)} :
       IF result.finished
       THEN /\ encoded' = result.encoded
            /\ pageParts' = result.parts
       ELSE UNCHANGED <<encoded, pageParts>>
  /\ UNCHANGED <<pageInput, debouncedInput, pageAbiParams, pageArgValues, edits>>
  /\ UNCHANGED <<callVars, themeVars>>

PageNext == EditInput \/ Debounce \/ EditValue \/ ClickEncode

SpecPage == InitPage /\ [][PageNext]_vars

\* The page left to itself: the debounce timer set by an edit always fires;
\* edits and clicks are the user's and nothing obliges them to happen.
SpecPageLive == InitPage /\ [][PageNext]_vars /\ WF_debouncedInput(DebounceFires)

-----------------------------------------------------------------------------
(* The theme toggle: components/ThemeToggle.tsx *)

\* the mode the mount effect sets, reading the system preference instead of
\* the saved theme
InitialModePrefersSystem(saved, prefers) == prefers

\* the mode the mount effect sets: the saved theme when there is one, the
\* system preference otherwise
InitialMode(saved, prefers) ==
  IF saved # "none" THEN saved = "dark" ELSE prefers

\* the values of the page while the toggle alone is followed
HomeIdle ==
  /\ pageInput = <<>>
  /\ debouncedInput = <<>>
  /\ pageAbiParams = <<>>
  /\ pageArgValues = <<>>
  /\ encoded = [error |-> FALSE, text |-> <<>>]
  /\ pageParts = <<>>
  /\ edits = 0

\* The first render is committed (mounted = false, isDarkMode = false) and
\* its effects are to run. An earlier session may have saved a theme; the
\* document root may carry the class already.
InitTheme ==
  /\ CallIdle
  /\ HomeIdle
  /\ mounted = FALSE
  /\ isDarkMode = FALSE
  /\ savedTheme = "none"
  /\ storedTheme \in {"none", "dark", "light"}
  /\ darkClass \in BOOLEAN
  /\ prefersDark \in BOOLEAN
  /\ themePc = "mounting"
  /\ toggled = FALSE
  /\ themeSteps = 0

\* The effects of the first commit, in order. The mount effect sets mounted
\* and isDarkMode; the sync effect runs with the values of the first render
\* (mounted = false) and does nothing. The two updates are applied together
\* in the next render, whose sync effect is then to run.
MountEffects ==
  /\ themePc = "mounting"
  /\ savedTheme' = storedTheme
  /\ mounted' = TRUE
  /\ isDarkMode' = InitialMode(storedTheme, prefersDark)
  /\ themePc' = "syncing"
  /\ UNCHANGED <<storedTheme, darkClass, prefersDark, toggled, themeSteps>>
  /\ UNCHANGED <<callVars, pageVars>>

\* the sync effect on [isDarkMode, mounted] of a render with mounted = true
SyncEffect ==
  /\ themePc = "syncing"
  /\ IF mounted
     THEN IF isDarkMode
          THEN darkClass' = TRUE /\ storedTheme' = "dark"
          ELSE darkClass' = FALSE /\ storedTheme' = "light"
     ELSE UNCHANGED <<darkClass, storedTheme>>
  /\ themePc' = "settled"
  /\ UNCHANGED <<mounted, isDarkMode, savedTheme, prefersDark, toggled, themeSteps>>
  /\ UNCHANGED <<callVars, pageVars>>

\* toggleTheme: a click on the toggle, which is rendered once mounted; the
\* effects of the render before have run when a click is handled
ToggleTheme ==
  /\ themePc = "settled"
  /\ mounted
  /\ themeSteps < MaxThemeSteps
  /\ isDarkMode' = ~isDarkMode
  /\ themePc' = "syncing"
  /\ toggled' = TRUE
  /\ themeSteps' = themeSteps + 1
  /\ UNCHANGED <<mounted, savedTheme, storedTheme, darkClass, prefersDark>>
  /\ UNCHANGED <<callVars, pageVars>>

\* the page is loaded again: a new document and new component state; the
\* storage is kept
ReloadPage ==
  /\ themePc = "settled"
  /\ themeSteps < MaxThemeSteps
  /\ mounted' = FALSE
  /\ isDarkMode' = FALSE
  /\ savedTheme' = "none"
  /\ darkClass' = FALSE
  /\ themePc' = "mounting"
  /\ toggled' = FALSE
  /\ themeSteps' = themeSteps + 1
  /\ UNCHANGED <<storedTheme, prefersDark>>
  /\ UNCHANGED <<callVars, pageVars>>

ThemeNext == MountEffects \/ SyncEffect \/ ToggleTheme \/ ReloadPage

SpecTheme == InitTheme /\ [][ThemeNext]_vars

-----------------------------------------------------------------------------
(* Vocabulary of the properties *)

Returned == pc = "done"

Failed == pc = "error"

\* the selector has been computed
Selected == pc \in {"selected", "encoded", "done"}

\* the leaf hex values of a breakdown, in list order
RECURSIVE LeafHex(_)
LeafHex(ps) ==
  IF ps = <<>> THEN <<>>
  ELSE (IF Head(ps).hasComponents THEN LeafHex(Head(ps).components)
        ELSE Head(ps).value) \o LeafHex(Tail(ps))

IsTuple(p) == p.hasComponents /\ p.type = <<"tuple">>

\* the static scalar types: integers, boolean, address and bytesN
StaticScalarTypes == {"uint8", "uint256", "int8", "bool", "address", "bytes4"}

IsStaticScalar(p) ==
  ~p.hasComponents /\ Len(p.type) = 1 /\ p.type[1] \in StaticScalarTypes

IsTailPart(part) == part.name # <<>> /\ part.name[1] = "Tail for "

\* the top-level parameters (1-based indices) that are dynamic
DynamicIndices == { i \in 1..Len(abiParams) : IsDynamic(abiParams[i]) }

-----------------------------------------------------------------------------
(* C1 *)

\* C1: the leaf hex values of the returned breakdown, concatenated in list
\* order, are the returned calldata digit for digit (every byte is covered
\* exactly once).
C1_BreakdownTilesCalldata == Returned => LeafHex(parts) = calldata

-----------------------------------------------------------------------------
(* C2, C3 *)

\* the text without its argument names: every " " followed by an identifier
\* that is no type keyword is dropped together with the identifier
RECURSIVE DropNames(_)
DropNames(text) ==
  IF text = <<>> THEN <<>>
  ELSE IF Len(text) >= 2 /\ text[1] = " " /\ IsIdentifier(text[2])
            /\ text[2] \notin SolidityTypes
  THEN DropNames(SubSeq(text, 3, Len(text)))
  ELSE <<Head(text)>> \o DropNames(Tail(text))

RECURSIVE DropWhitespace(_)
DropWhitespace(text) ==
  IF text = <<>> THEN <<>>
  ELSE (IF Head(text) = " " THEN <<>> ELSE <<Head(text)>>)
       \o DropWhitespace(Tail(text))

\* the selector encodeFunctionCall computes for a signature text it accepts
SelectorOfText(text) ==
  Selector4(CanonicalSignatureOf(FuncNameMatch(Trim(text)).name,
                                 ParseAbiParameters(ArgsStr(Trim(text))).list))

Accepted(text) ==
  FuncNameMatch(Trim(text)).matched /\ ParseAbiParameters(ArgsStr(Trim(text))).ok

\* C2: the selector computed for a signature is the selector computed for
\* the same signature written without its argument names.
C2_NamesNeverAffectSelector ==
  (Selected /\ Accepted(DropNames(input)))
    => selector = SelectorOfText(DropNames(input))

\* C3: the string hashed for the selector is the input without argument
\* names and without whitespace: the name before the first "(", then "(",
\* the comma-joined bare types, then ")".
C3_CanonicalSignatureIsBare ==
  Selected => canonicalSignature = DropWhitespace(DropNames(input))

-----------------------------------------------------------------------------
(* C4 *)

\* C4: when all N parameters are static scalars the parameter area is N
\* words, and the breakdown is the selector part followed by exactly N head
\* parts, none of them a tail part.
C4_StaticLayoutSize ==
  (Returned /\ \A i \in 1..Len(abiParams) : IsStaticScalar(abiParams[i]))
    => /\ Len(calldata) = 8 + 64 * Len(abiParams)
       /\ SubSeq(calldata, 1, 8) = selector
       /\ Len(parts) = 1 + Len(abiParams)
       /\ parts[1].name = <<"Function Selector">>
       /\ \A i \in 1..Len(abiParams) :
            /\ ~IsTailPart(parts[i + 1])
            /\ parts[i + 1].name = HeadName(abiParams[i], i - 1)
            /\ ~parts[i + 1].hasComponents

\* C4 witness: a call with at least two parameters, all static scalars, has
\* returned
C4_Witness ==
  /\ Returned
  /\ Len(abiParams) >= 2
  /\ \A i \in 1..Len(abiParams) : IsStaticScalar(abiParams[i])

-----------------------------------------------------------------------------
(* C5 *)

\* the content windows of the offset-sorted top-level dynamic items, as
\* [from, to) positions in hex digits of the parameter area
TopItems == SortedDynamicItems(abiParams, encodedParamsHex)

WindowFrom(i) ==
  Min(Max(DataStart(TopItems, i), 0), Len(encodedParamsHex))

WindowTo(i) ==
  Min(Max(DataEnd(TopItems, i, encodedParamsHex), 0), Len(encodedParamsHex))

RECURSIVE SumWindows(_)
SumWindows(i) ==
  IF i > Len(TopItems) THEN 0
  ELSE Len(ItemDataHex(TopItems, i, encodedParamsHex)) + SumWindows(i + 1)

WindowsContiguous ==
  /\ \A i \in 1..Len(TopItems) :
       /\ WindowFrom(i) <= WindowTo(i)
       /\ Len(ItemDataHex(TopItems, i, encodedParamsHex)) = WindowTo(i) - WindowFrom(i)
  /\ \A i \in 1..(Len(TopItems) - 1) : WindowTo(i) = WindowFrom(i + 1)
  /\ Len(TopItems) > 0 => WindowTo(Len(TopItems)) = Len(encodedParamsHex)

-----------------------------------------------------------------------------
(* The layout the encoding scheme prescribes, for C6..C8 *)

\* hex digits a static parameter occupies in the head: one word per scalar,
\* the sum of its fields for a static record
RECURSIVE StaticDigits(_)
RECURSIVE SumStaticDigits(_)
StaticDigits(p) ==
  IF IsTuple(p) THEN SumStaticDigits(p.components) ELSE 64

SumStaticDigits(ps) ==
  IF ps = <<>> THEN 0 ELSE StaticDigits(Head(ps)) + SumStaticDigits(Tail(ps))

HeadDigits(p) == IF IsDynamic(p) THEN 64 ELSE StaticDigits(p)

\* where the head of top-level parameter i (1-based) starts, in hex digits
RECURSIVE HeadPosition(_)
HeadPosition(i) ==
  IF i <= 1 THEN 0 ELSE HeadPosition(i - 1) + HeadDigits(abiParams[i - 1])

\* the 32-byte head word of top-level parameter i in the parameter area
HeadWord(i) == SubSeq(encodedParamsHex, HeadPosition(i) + 1, HeadPosition(i) + 64)

AllZero(hex) == \A k \in 1..Len(hex) : hex[k] = 0

\* the encoding of the value of top-level parameter i on its own
OwnEncoding(i) == PrepareParam(abiParams[i], argValues[i]).encoded

-----------------------------------------------------------------------------
(* C6 *)

\* C6: every integer, boolean and address parameter is right-aligned in its
\* head word with zero bytes on the left, every bytesN parameter is
\* left-aligned with zero bytes on the right, and the head part shown for
\* the parameter is exactly that word.
C6_PaddingDirection ==
  Returned =>
    \A i \in 1..Len(abiParams) :
      IsStaticScalar(abiParams[i]) =>
        LET tok  == abiParams[i].type[1]
            word == HeadWord(i)
        IN  /\ tok \in {"uint8", "int8", "bool"} => AllZero(SubSeq(word, 1, 62))
            /\ tok = "address" => AllZero(SubSeq(word, 1, 24))
            /\ tok = "bytes4" => AllZero(SubSeq(word, 9, 64))
            /\ parts[i + 1].value = word

-----------------------------------------------------------------------------
(* C7 *)

\* the dynamic item the first pass records for top-level parameter i
ItemOf(i) ==
  LET items == FirstPass(abiParams, 0, encodedParamsHex, 0).dynamicItems
      k     == Cardinality({ j \in DynamicIndices : j <= i })
  IN  items[k]

\* C7: the head word of a dynamic parameter is the byte offset of its own
\* tail content in the parameter area, and the breakdown starts the
\* parameter's content window at that offset; a lone string parameter has
\* head word 32.
C7_HeadWordIsOffsetOfOwnTail ==
  Returned =>
    /\ \A i \in DynamicIndices :
         LET off == ParseInt16(HeadWord(i))
         IN  /\ SubSeq(encodedParamsHex, 2 * off + 1, 2 * off + Len(OwnEncoding(i)))
                  = OwnEncoding(i)
             /\ ItemOf(i).offset = off
    /\ (Len(abiParams) = 1 /\ abiParams[1].type = <<"string">>)
         => /\ ParseInt16(HeadWord(1)) = 32
            /\ SubSeq(encodedParamsHex, 65, Len(encodedParamsHex))
                 = NatToHex(Len(argValues[1].hex) \div 2, 64)
                     \o PadEnd(argValues[1].hex, CeilWords(Len(argValues[1].hex)))

-----------------------------------------------------------------------------
(* C8 *)

IsScalarArray(p) ==
  /\ ~p.hasComponents
  /\ Len(p.type) = 2
  /\ p.type[2] = "[]"
  /\ p.type[1] \notin {"string", "bytes"}

\* the tail part of the breakdown for top-level parameter i
TailPartOf(i) ==
  CHOOSE part \in { parts[k] : k \in 1..Len(parts) } :
    part.name = <<"Tail for ">> \o ParamName(abiParams[i], i - 1)

\* C8: for an array of N static scalars the tail is the count word N and N
\* element words, and the breakdown shows one length part followed by
\* exactly N element parts [0]..[N-1] holding those words.
C8_ScalarArrayParts ==
  Returned =>
    \A i \in 1..Len(abiParams) :
      IsScalarArray(abiParams[i]) =>
        LET n     == Len(argValues[i].items)
            tail  == OwnEncoding(i)
            comps == TailPartOf(i).components
        IN  /\ Len(tail) = 64 * (n + 1)
            /\ SubSeq(tail, 1, 64) = NatToHex(n, 64)
            /\ Len(comps) = n + 1
            /\ comps[1].name = <<"length">>
            /\ comps[1].value = SubSeq(tail, 1, 64)
            /\ \A k \in 1..n :
                 /\ comps[k + 1].name = <<"[", ToString(k - 1), "]">>
                 /\ comps[k + 1].value = SubSeq(tail, 64 * k + 1, 64 * k + 64)

-----------------------------------------------------------------------------
(* C9 *)

NothingProduced ==
  /\ funcName = <<>>
  /\ abiParams = <<>>
  /\ canonicalSignature = <<>>
  /\ selector = <<>>
  /\ encodedParamsHex = <<>>
  /\ calldata = <<>>
  /\ parts = <<>>

\* C9: a signature text without any opening parenthesis only ever fails,
\* and nothing (no name, selector, calldata or part) is produced for it.
C9_NoParenthesisFails ==
  IndexOf(input, "(") = -1 => (pc \in {"start", "error"} /\ NothingProduced)

\* C9 witness: a text without "(" has been rejected
C9_Witness == IndexOf(input, "(") = -1 /\ Failed /\ Len(input) >= 2

-----------------------------------------------------------------------------
(* C10 *)

\* C10: for `name()` encoding succeeds, the calldata is the 4-byte selector
\* alone and the breakdown is the selector part alone.
C10_EmptyArgumentList ==
  DropWhitespace(input) = <<"f", "(", ")">>
    => /\ ~Failed
       /\ Returned => /\ abiParams = <<>>
                      /\ calldata = selector
                      /\ Len(calldata) = 8
                      /\ Len(parts) = 1

-----------------------------------------------------------------------------
(* C13 *)

\* the head cursor of the first pass when it reaches the parameter of
\* 1-based index i of params: 64 per dynamic or scalar parameter before it,
\* tupleDataLength per static record
RECURSIVE HeadCursorAt(_, _)
HeadCursorAt(params, i) ==
  IF i <= 1 THEN 0
  ELSE LET param == params[i - 1]
       IN  HeadCursorAt(params, i - 1)
             + (IF ~IsDynamic(param) /\ param.hasComponents
                     /\ param.type = <<"tuple">>
                THEN TupleDataLength(param) ELSE 64)

IsStaticRecord(p) == IsTuple(p) /\ ~IsDynamic(p)

\* C13: the first pass consumes for every static record exactly the head
\* words the encoder wrote for it, so the head slot of every parameter is
\* read at the position the encoder wrote it.
C13_StaticRecordHeadWords ==
  Returned =>
    /\ \A i \in 1..Len(abiParams) :
         IsStaticRecord(abiParams[i])
           => TupleDataLength(abiParams[i])
                = Len(PrepareParam(abiParams[i], argValues[i]).encoded)
    /\ \A i \in 1..Len(abiParams) :
         HeadCursorAt(abiParams, i) = HeadPosition(i)

-----------------------------------------------------------------------------
(* C14 *)

IsArray(p) == EndsWithArray(p.type)

\* an array whose elements are dynamic or are records
HasCompositeElements(p) ==
  IsArray(p) /\ (p.hasComponents \/ IsDynamic(ElementParam(p)))

\* C14: for an array whose elements are dynamic or are records, the parts
\* after the length part hold the whole element region the encoder wrote
\* (the nested head/tail region, or count x field-count words); no element
\* is presented by its offset word or by a single field word.
C14_ArrayElementsByKind ==
  Returned =>
    \A i \in 1..Len(abiParams) :
      HasCompositeElements(abiParams[i]) =>
        LET comps == TailPartOf(i).components
            tail  == OwnEncoding(i)
        IN  /\ comps # <<>>
            /\ comps[1].value = SubSeq(tail, 1, 64)
            /\ LeafHex(SubSeq(comps, 2, Len(comps))) = SubSeq(tail, 65, Len(tail))

-----------------------------------------------------------------------------
(* C15 *)

\* the top-level dynamic items in declaration order, as the first pass
\* records them
DeclaredItems == FirstPass(abiParams, 0, encodedParamsHex, 0).dynamicItems

\* an offset that does not point into the parameter area
OutsideWindow(offset) ==
  offset = NaN \/ Times2(offset) >= Len(encodedParamsHex)

\* the offsets of the items of one level overlap or decrease
OffsetsDecrease ==
  \E i \in 1..(Len(DeclaredItems) - 1) :
    ~OffsetBefore(DeclaredItems[i], DeclaredItems[i + 1])

HasTailPartFor(item) ==
  \E k \in 1..Len(parts) : parts[k].name = <<"Tail for ">> \o item.name

\* C15: when a dynamic item's offset falls outside the window, or the
\* offsets of one level overlap or decrease, no result with parts for that
\* content is returned: no tail part is shown for an item whose offset is
\* outside the window, and none at all when the offsets decrease.
C15_CorruptLayoutDetected ==
  Returned =>
    /\ \A i \in 1..Len(DeclaredItems) :
         OutsideWindow(DeclaredItems[i].offset) => ~HasTailPartFor(DeclaredItems[i])
    /\ OffsetsDecrease => \A k \in 1..Len(parts) : ~IsTailPart(parts[k])

-----------------------------------------------------------------------------
(* C16 *)

IsTextOrBytes(p) == p.type = <<"string">> \/ p.type = <<"bytes">>

\* C16: for every string or bytes parameter the breakdown shows the length
\* word L, exactly the L raw content bytes, and the content with its zero
\* padding, which is what follows the length word in the calldata.
C16_TextAndBytesParts ==
  Returned =>
    \A i \in 1..Len(abiParams) :
      IsTextOrBytes(abiParams[i]) =>
        LET comps == TailPartOf(i).components
            tail  == OwnEncoding(i)
            raw   == argValues[i].hex
        IN  /\ Len(comps) = 2
            /\ comps[1].name = <<"length">>
            /\ comps[1].value = SubSeq(tail, 1, 64)
            /\ comps[1].description = <<Len(raw) \div 2>>
            /\ comps[2].name = <<"value">>
            /\ comps[2].description = raw
            /\ comps[2].value = SubSeq(tail, 65, Len(tail))
            /\ comps[2].value = PadEnd(raw, CeilWords(Len(raw)))

-----------------------------------------------------------------------------
(* C19 *)

\* the rule of the type model: dynamic bytes, text, arrays, and records with
\* a dynamic field at any depth
RECURSIVE DynamicKind(_)
DynamicKind(p) ==
  \/ IsArray(p)
  \/ IsTextOrBytes(p)
  \/ (IsTuple(p) /\ \E j \in 1..Len(p.components) : DynamicKind(p.components[j]))

\* the head part of top-level parameter i (the selector part comes first)
HeadPartOf(i) == parts[i + 1]

\* C19: isDynamic is true exactly for bytes, string, arrays and records
\* with a dynamic field at any depth; it agrees with the encoder's own
\* placement of the value; a record without dynamic fields is decomposed
\* inline in the head and has no tail part.
C19_StaticDynamicClassification ==
  pc \in {"encoded", "done"} =>
    \A i \in 1..Len(abiParams) :
      LET p == abiParams[i]
      IN  /\ IsDynamic(p) <=> DynamicKind(p)
          /\ IsDynamic(p) <=> PrepareParam(p, argValues[i]).dynamic
          /\ IsStaticScalar(p) => ~IsDynamic(p)
          /\ (Returned /\ IsTuple(p) /\ ~DynamicKind(p))
               => /\ HeadPartOf(i).type = <<"tuple">>
                  /\ HeadPartOf(i).hasComponents
                  /\ \A k \in 1..Len(parts) :
                       parts[k].name # <<"Tail for ">> \o ParamName(p, i - 1)
          /\ (Returned /\ DynamicKind(p))
               => \E k \in 1..Len(parts) :
                    parts[k].name = <<"Tail for ">> \o ParamName(p, i - 1)

\* C19 witness: a call with a record that has no dynamic field and a record
\* whose dynamic field lies two levels down has returned
C19_Witness ==
  /\ Returned
  /\ \E i \in 1..Len(abiParams) : IsTuple(abiParams[i]) /\ ~DynamicKind(abiParams[i])
  /\ \E i \in 1..Len(abiParams) : abiParams[i] = DeepDynamicTuple

-----------------------------------------------------------------------------
(* C20 *)

\* the tail parts of the returned list: everything after the selector part
\* and the head parts
TailPartAt(k) == parts[1 + Len(abiParams) + k]

\* C20: the parts are the selector part (the first 4 bytes of the calldata
\* as 8 hex digits), then one head part per parameter in declaration order,
\* then one tail part per dynamic parameter in ascending offset order, each
\* with child parts of its own.
C20_PartOrdering ==
  Returned =>
    LET n == Len(abiParams)
        d == Cardinality(DynamicIndices)
    IN  /\ Len(parts) = 1 + n + d
        /\ parts[1].name = <<"Function Selector">>
        /\ parts[1].value = SubSeq(calldata, 1, 8)
        /\ Len(parts[1].value) = 8
        /\ \A i \in 1..n :
             /\ parts[1 + i].name = HeadName(abiParams[i], i - 1)
             /\ ~IsTailPart(parts[1 + i])
        /\ \A k \in 1..d :
             /\ IsTailPart(TailPartAt(k))
             /\ TailPartAt(k).hasComponents
             /\ TailPartAt(k).components # <<>>
        /\ { TailPartAt(k).name : k \in 1..d }
             = { <<"Tail for ">> \o ParamName(abiParams[i], i - 1) : i \in DynamicIndices }
        /\ \A k \in 1..(d - 1) :
             TailPartAt(k).description[1] <= TailPartAt(k + 1).description[1]

\* C20 witness: a call with a static parameter and two dynamic ones, whose
\* offsets were read in decreasing order so that the sort moved them, has
\* returned
C20_Witness ==
  /\ Returned
  /\ Cardinality(DynamicIndices) >= 2
  /\ Len(abiParams) > Cardinality(DynamicIndices)
  /\ OffsetsDecrease

-----------------------------------------------------------------------------
(* C11 *)

\* the number of comma-separated items of a field text
ItemCount(text) == Cardinality({ i \in 1..Len(text) : text[i] = "," }) + 1

\* the k-th comma-separated item of a field text of one-token items
ItemAt(text, k) == text[2 * k - 1]

\* the word that encodes one item of an array of elementType, <<>> when the
\* item is no literal of that type
ItemWord(elementType, item) ==
  IF elementType = <<"uint256">> /\ item \in {"1", "2", "5"}
  THEN NatToHex(CASE item = "1" -> 1 [] item = "2" -> 2 [] OTHER -> 5, 64)
  ELSE IF elementType = <<"address">> /\ item = AddressLiteral
  THEN PadStart(Repeat(1, 40), 64)
  ELSE <<>>

\* the page shows the fields of the current signature, which declares one
\* array of scalars, and the field holds comma-separated literals of the
\* element type
ArrayFieldFilled ==
  /\ debouncedInput = pageInput
  /\ Len(pageAbiParams) = 1
  /\ IsScalarArray(pageAbiParams[1])
  /\ pageArgValues[1].leaf
  /\ pageArgValues[1].text # <<>>
  /\ \A k \in 1..ItemCount(pageArgValues[1].text) :
       ItemWord(ElementType(pageAbiParams[1].type),
                ItemAt(pageArgValues[1].text, k)) # <<>>

\* the parameter words of a call with one array of the items of text: the
\* offset 32, the length, and one word per item
RECURSIVE ItemWords(_, _, _)
ItemWords(elementType, text, k) ==
  IF k > ItemCount(text) THEN <<>>
  ELSE ItemWord(elementType, ItemAt(text, k)) \o ItemWords(elementType, text, k + 1)

ArrayCallWords(elementType, text) ==
  NatToHex(32, 64) \o NatToHex(ItemCount(text), 64) \o ItemWords(elementType, text, 1)

\* C11: when the field of an array parameter holds comma-separated elements,
\* a click on Encode shows calldata (no error) whose parameter words are the
\* array's offset, its length = the number of items, and one word per item.
C11_ArrayInputViaPage ==
  [][(ClickEncode /\ ArrayFieldFilled) =>
       /\ ~encoded'.error
       /\ JsSubstringFrom(encoded'.text, 8)
            = ArrayCallWords(ElementType(pageAbiParams[1].type),
                             pageArgValues[1].text)]_vars

-----------------------------------------------------------------------------
(* C17 *)

\* an integer type: one token, no array suffix
IsIntegerParam(p) == ~p.hasComponents /\ Len(p.type) = 1 /\ p.type[1] \in IntTypes

\* the page shows the fields of the current signature, and the field of
\* some integer parameter holds a text that spells no number
NonNumericInIntegerField ==
  /\ debouncedInput = pageInput
  /\ \E i \in 1..Len(pageAbiParams) :
       /\ IsIntegerParam(pageAbiParams[i])
       /\ pageArgValues[i].leaf
       /\ ~BigIntOf(pageArgValues[i].text).ok

\* C17: a click on Encode while an integer field holds a non-numeric
\* literal ends in an error; no calldata and no parts are produced for it.
C17_InvalidNumericFailsClosed ==
  [][(ClickEncode /\ NonNumericInIntegerField) =>
       /\ encoded'.error
       /\ pageParts' = <<>>]_vars

-----------------------------------------------------------------------------
(* C18 *)

\* the call handleEncode would make now fails: the signature is malformed,
\* its parameters do not parse, or the values do not encode under them
\* (wrong shape, wrong number, out of range, not a literal of the type)
CallFails ==
  LET processed     == ProcessValues(pageAbiParams, pageArgValues)
      fullSignature == Trim(pageInput)
      parsed        == ParseAbiParameters(ArgsStr(fullSignature))
  IN  \/ ~processed.ok
      \/ ~FuncNameMatch(fullSignature).matched
      \/ ~parsed.ok
      \/ ~EncodeAbiParameters(parsed.list, processed.list).ok

\* C18: when the call made by a click on Encode fails, the page shows the
\* error text, no calldata, and an empty breakdown: no part of the failed
\* call and no part of an earlier successful call stays.
C18_NoPartialEncoding ==
  [][(ClickEncode /\ CallFails) =>
       /\ encoded'.error
       /\ encoded'.text = <<>>
       /\ pageParts' = <<>>]_vars

\* C18 witness: the error is shown for a well-formed signature whose fields
\* are on the page and whose values do not encode
C18_Witness ==
  /\ encoded.error
  /\ pageParts = <<>>
  /\ CallFails
  /\ debouncedInput = pageInput
  /\ pageAbiParams # <<>>
  /\ \E i \in 1..Len(pageArgValues) :
       pageArgValues[i].leaf /\ pageArgValues[i].text # <<>>

-----------------------------------------------------------------------------
(* C12 *)

\* what is displayed is what handleEncode gives for the current signature
\* and argument values
DisplayCurrent ==
  LET result == HandleEncodeResult(pageInput, pageAbiParams, pageArgValues)
  IN  /\ result.finished
      /\ encoded = result.encoded
      /\ pageParts = result.parts

\* C12: whenever, after an edit, the displayed calldata and breakdown are
\* not those of the current signature and values, they become so later
\* without the user doing anything: the page does not stay on an earlier
\* result for ever.
C12_RealTimeEncoding ==
  (edits > 0 /\ ~DisplayCurrent) ~> DisplayCurrent

-----------------------------------------------------------------------------
(* C21 *)

\* the calls that have come back: those the caller holds, and the one that
\* has just finished
FinishedCalls ==
  results \o (IF pc \in {"done", "error"}
              THEN <<[input |-> input, argValues |-> argValues,
                      returned |-> pc = "done",
                      calldata |-> calldata, parts |-> parts]>>
              ELSE <<>>)

\* two calls with the same signature and values have the same outcome
SameCallSameResult ==
  \A j, k \in 1..Len(FinishedCalls) :
    (/\ FinishedCalls[j].input = FinishedCalls[k].input
     /\ FinishedCalls[j].argValues = FinishedCalls[k].argValues)
      => FinishedCalls[j] = FinishedCalls[k]

\* a step leaves every result the caller holds as it was
HeldResultsKept ==
  /\ Len(results') >= Len(results)
  /\ \A k \in 1..Len(results) : results'[k] = results[k]

\* C21: over any sequence of calls, a call's outcome (calldata and parts, or
\* failure) is the same whenever its signature and values are the same,
\* whatever was called before it, and no step of a later call changes a
\* result returned earlier.
C21_IndependentCalls == [](SameCallSameResult) /\ [][HeldResultsKept]_vars

\* C21 witness: the caller holds the results of two returned calls of the
\* same signature and values, with parts, and of a different returned call
\* made between them
C21_Witness ==
  \E j, k, l \in 1..Len(results) :
    /\ j < k /\ k < l
    /\ results[j].input = results[l].input
    /\ results[j].argValues = results[l].argValues
    /\ results[k].input # results[j].input
    /\ results[j].returned /\ results[k].returned
    /\ Len(results[j].parts) > 2
    /\ Len(results[k].parts) > 2

-----------------------------------------------------------------------------
(* C22 *)

\* the parameter list parsed from the signature text handleEncode passes to
\* encodeFunctionCall ([] when it does not parse)
ParamsOfInput == EffectResult(pageInput).abiParams

\* C22: at every click on Encode, the parameter list that converts the
\* argument values (abiParams) is the one parsed from the signature text
\* passed to encodeFunctionCall (input), also when the click comes before
\* the debounce has followed an edit of the signature.
C22_ParamsMatchSignatureOnEncode ==
  [][ClickEncode => pageAbiParams = ParamsOfInput]_vars

-----------------------------------------------------------------------------
(* C23 *)

\* values has one entry per parameter, a text where the parameter has no
\* components and, where it has, a list of the shape of its components
RECURSIVE SameShape(_, _)
SameShape(params, values) ==
  /\ Len(values) = Len(params)
  /\ \A i \in 1..Len(params) :
       IF params[i].hasComponents
       THEN ~values[i].leaf /\ SameShape(params[i].components, values[i].items)
       ELSE values[i].leaf

\* C23: in every reachable state of the page argValues has the tree shape
\* of abiParams, through re-parses of the signature, parse failures (both
\* empty) and edits of values at any depth.
C23_ValueTreeShape == SameShape(pageAbiParams, pageArgValues)

\* C23 witness: after a re-parse of an edited signature, the fields of a
\* record parameter are on the page and one of them has been edited
C23_Witness ==
  /\ edits >= 2
  /\ debouncedInput = pageInput
  /\ \E i \in 1..Len(pageAbiParams) :
       /\ pageAbiParams[i].hasComponents
       /\ ~pageArgValues[i].leaf
       /\ \E j \in 1..Len(pageArgValues[i].items) :
            pageArgValues[i].items[j].text # <<>>

-----------------------------------------------------------------------------
(* C24 *)

\* the component is mounted and every effect has run
ThemeSettled == themePc = "settled" /\ mounted

\* a step from a state where no toggle has happened since the mount leaves
\* a saved theme as it is
MountKeepsSavedTheme ==
  (~toggled /\ ~toggled' /\ storedTheme \in {"dark", "light"})
    => storedTheme' = storedTheme

\* once mounting has settled and before any toggle, storage, mode and class
\* are those of the theme that was saved
SettledOnSavedTheme ==
  (ThemeSettled /\ ~toggled /\ savedTheme \in {"dark", "light"})
    => /\ storedTheme = savedTheme
       /\ isDarkMode = (savedTheme = "dark")
       /\ darkClass = (savedTheme = "dark")

\* in a settled state the stored value is 'dark' exactly when the class is
\* present
StoredMatchesClass == ThemeSettled => ((storedTheme = "dark") <=> darkClass)

\* C24: with a theme saved by an earlier session, mounting never writes the
\* opposite theme; once mounting has settled the stored theme, the mode and
\* the 'dark' class equal the saved theme; and after any number of toggles
\* the stored value is 'dark' exactly when the class is present.
C24_ThemePersistsAcrossMount ==
  /\ [][MountKeepsSavedTheme]_vars
  /\ [](SettledOnSavedTheme /\ StoredMatchesClass)

\* C24 witness: a page loaded with the theme 'dark' saved, on a system that
\* prefers light, has settled; it was reloaded after toggles before
C24_Witness ==
  /\ ThemeSettled
  /\ ~toggled
  /\ savedTheme = "dark"
  /\ ~prefersDark
  /\ themeSteps >= 2

====
